---- MODULE Spec2Model ----
(***************************************************************************)
(* A model of the KZG committer key (src/src/kzg/time.rs) and of the       *)
(* SNARK verifier's orchestration (src/src/snark/verifier.rs).             *)
(*                                                                         *)
(* Scalars are the integers modulo a small prime Q.  G1 and G2 are cyclic  *)
(* of the same prime order, so a group element is written as its discrete  *)
(* logarithm to a fixed generator: the identity is 0, the group law is     *)
(* addition modulo Q and scalar multiplication is multiplication modulo Q. *)
(* A polynomial is the sequence of its coefficients, lowest degree first;  *)
(* p[i] is the coefficient of X^(i-1).                                     *)
(***************************************************************************)
EXTENDS Integers, Sequences, FiniteSets, TLC

VARIABLES ck, origin, ret, pc, transcript, proof, chal, sub, zs, result

vars == <<ck, origin, ret, pc, transcript, proof, chal, sub, zs, result>>

kzgVars == <<ck, origin, ret>>

verifierVars == <<pc, transcript, proof, chal, sub, zs, result>>

----------------------------------------------------------------------------
(* Bounds of the model. *)

\* Which prime of FieldPrimes is the order of the scalar field.
FieldIndex == 1

FieldPrimes == <<3, 5, 7, 11>>

Q == FieldPrimes[FieldIndex]

\* Largest max_degree and max_eval_points handed to CommitterKey::new.
MaxDegree == 1

MaxEvalPoints == 2

\* Longest coefficient vector handed to commit and open.
MaxLen == 3

\* Most polynomials and most points handed to the multi-point openings.
MaxPolys == 2

MaxPoints == 2

Fr == 0 .. (Q - 1)

\* The scalars the callers pass in: 0, 1 and -1.
InputScalars == {0, 1, Q - 1}

Min(a, b) == IF a <= b THEN a ELSE b

Max(a, b) == IF a >= b THEN a ELSE b

SeqsUpTo(S, n) == UNION {[1 .. k -> S] : k \in 0 .. n}

----------------------------------------------------------------------------
(* The scalar field. *)

Add(a, b) == (a + b) % Q

Mul(a, b) == (a * b) % Q

Neg(a) == (Q - a) % Q

Sub(a, b) == Add(a, Neg(b))

RECURSIVE Pow(_, _)
Pow(a, n) == IF n = 0 THEN 1 % Q ELSE Mul(a, Pow(a, n - 1))

Inverse(a) == CHOOSE y \in Fr : Mul(a, y) = 1 % Q

\* misc::powers(element, len): <<1, element, element^2, ...>>, by repeated
\* multiplication.
RECURSIVE powers(_, _)
powers(element, len) ==
    IF len = 0 THEN <<>>
    ELSE IF len = 1 THEN <<1 % Q>>
    ELSE LET init == powers(element, len - 1)
         IN  Append(init, Mul(init[len - 1], element))

----------------------------------------------------------------------------
(* The committer key. *)

\* VariableBaseMSM::msm_unchecked: the sum of bases[i] * scalars[i] over the
\* positions both sequences have; the longer one's tail is ignored.
RECURSIVE MsmPrefix(_, _, _)
MsmPrefix(bases, scalars, n) ==
    IF n = 0 THEN 0
    ELSE Add(MsmPrefix(bases, scalars, n - 1), Mul(bases[n], scalars[n]))

msm_unchecked(bases, scalars) ==
    MsmPrefix(bases, scalars, Min(Len(bases), Len(scalars)))

\* CommitterKey::new, with the three values drawn from rng made explicit.
CommitterKeyNew(max_degree, max_eval_points, tau, g, g2) ==
    LET powers_of_tau == powers(tau, max_degree + 1)
        taken == Min(max_eval_points + 1, Len(powers_of_tau))
    IN  [powers_of_g  |-> [i \in 1 .. Len(powers_of_tau) |-> Mul(g, powers_of_tau[i])],
         powers_of_g2 |-> [i \in 1 .. taken |-> Mul(g2, powers_of_tau[i])]]

\* CommitterKey::max_eval_points.
max_eval_points(key) == Len(key.powers_of_g2) - 1

\* CommitterKey::commit.  msm_unchecked never fails, so the result is always a
\* commitment; "error" records that no degree check is made.
commit(key, polynomial) ==
    [error |-> "none", commitment |-> msm_unchecked(key.powers_of_g, polynomial)]

\* CommitterKey::index_by: the zip stops at the shorter of indices and
\* powers_of_g; indices are 0-based positions of the new basis.
IndexByPairs(key, indices) == Min(Len(indices), Len(key.powers_of_g))

\* indexed_powers_of_g[i] with i past the end of the vector panics.
IndexByPanics(key, indices) ==
    \E j \in 1 .. IndexByPairs(key, indices) : indices[j] >= Len(key.powers_of_g)

RECURSIVE Scatter(_, _, _, _)
Scatter(acc, indices, gs, j) ==
    IF j > Min(Len(indices), Len(gs)) THEN acc
    ELSE Scatter([acc EXCEPT ![indices[j] + 1] = Add(acc[indices[j] + 1], gs[j])],
                 indices, gs, j + 1)

\* index_by storing each element instead of adding it to the slot.
RECURSIVE ScatterOverwrite(_, _, _, _)
ScatterOverwrite(acc, indices, gs, j) ==
    IF j > Min(Len(indices), Len(gs)) THEN acc
    ELSE ScatterOverwrite([acc EXCEPT ![indices[j] + 1] = gs[j]], indices, gs, j + 1)

index_by_overwrite(key, indices) ==
    [powers_of_g  |-> ScatterOverwrite([i \in 1 .. Len(key.powers_of_g) |-> 0],
                                       indices, key.powers_of_g, 1),
     powers_of_g2 |-> key.powers_of_g2]

index_by(key, indices) ==
    [powers_of_g  |-> Scatter([i \in 1 .. Len(key.powers_of_g) |-> 0],
                              indices, key.powers_of_g, 1),
     powers_of_g2 |-> key.powers_of_g2]

\* From<&CommitterKey> for VerifierKey: the two slices panic when they end
\* past the end of the vector, and len() - 1 underflows on an empty vector.
VerifierKeyPanics(key) ==
    \/ Len(key.powers_of_g2) = 0
    \/ max_eval_points(key) + 1 > Len(key.powers_of_g2)
    \/ max_eval_points(key) > Len(key.powers_of_g)

\* The group-1 slice taken one element too long.
VerifierKeyFromLong(key) ==
    [powers_of_g  |-> SubSeq(key.powers_of_g, 1, max_eval_points(key) + 1),
     powers_of_g2 |-> SubSeq(key.powers_of_g2, 1, max_eval_points(key) + 1)]

VerifierKeyFrom(key) ==
    [powers_of_g  |-> SubSeq(key.powers_of_g, 1, max_eval_points(key)),
     powers_of_g2 |-> SubSeq(key.powers_of_g2, 1, max_eval_points(key) + 1)]

----------------------------------------------------------------------------
(* Openings. *)

\* The loop of CommitterKey::open: the coefficients are visited from the
\* highest degree down and each new value is inserted at the front.
RECURSIVE HornerInsert(_, _, _, _, _)
HornerInsert(polynomial, z, k, previous, quotient) ==
    IF k = 0 THEN quotient
    ELSE LET coefficient == Add(polynomial[k], Mul(previous, z))
         IN  HornerInsert(polynomial, z, k - 1, coefficient,
                          <<coefficient>> \o quotient)

\* The same loop with each new value pushed at the back.
RECURSIVE HornerPush(_, _, _, _, _)
HornerPush(polynomial, z, k, previous, quotient) ==
    IF k = 0 THEN quotient
    ELSE LET coefficient == Add(polynomial[k], Mul(previous, z))
         IN  HornerPush(polynomial, z, k - 1, coefficient,
                        Append(quotient, coefficient))

open_pushed(key, polynomial, evaluation_point) ==
    LET all == HornerPush(polynomial, evaluation_point, Len(polynomial), 0, <<>>)
        evaluation == IF all = <<>> THEN 0 ELSE Head(all)
        quotient == IF all = <<>> THEN <<>> ELSE Tail(all)
    IN  [evaluation |-> evaluation, quotient |-> quotient,
         proof |-> msm_unchecked(key.powers_of_g, quotient)]

\* CommitterKey::open: split_first separates the evaluation from the quotient,
\* and an empty vector gives (0, []).
open(key, polynomial, evaluation_point) ==
    LET all == HornerInsert(polynomial, evaluation_point, Len(polynomial), 0, <<>>)
        evaluation == IF all = <<>> THEN 0 ELSE Head(all)
        quotient == IF all = <<>> THEN <<>> ELSE Tail(all)
    IN  [evaluation |-> evaluation, quotient |-> quotient,
         proof |-> msm_unchecked(key.powers_of_g, quotient)]

\* DensePolynomial::from_coefficients_slice: trailing zero coefficients are
\* dropped.
RECURSIVE from_coefficients_slice(_)
from_coefficients_slice(coeffs) ==
    IF coeffs = <<>> THEN <<>>
    ELSE IF coeffs[Len(coeffs)] = 0
         THEN from_coefficients_slice(SubSeq(coeffs, 1, Len(coeffs) - 1))
         ELSE coeffs

Coeff(p, i) == IF i >= 1 /\ i <= Len(p) THEN p[i] ELSE 0

\* The product of two polynomials (naive_mul).
PolyMul(p, q) ==
    IF p = <<>> \/ q = <<>> THEN <<>>
    ELSE [k \in 1 .. (Len(p) + Len(q) - 1) |->
            LET RECURSIVE Conv(_)
                Conv(i) == IF i = 0 THEN 0
                           ELSE Add(Conv(i - 1), Mul(p[i], Coeff(q, k + 1 - i)))
            IN  Conv(Len(p))]

\* kzg::vanishing_polynomial: the product of (X - point) over the points,
\* starting from the constant 1.
RECURSIVE vanishing_polynomial(_)
vanishing_polynomial(points) ==
    IF points = <<>> THEN <<1 % Q>>
    ELSE PolyMul(vanishing_polynomial(SubSeq(points, 1, Len(points) - 1)),
                 <<Neg(points[Len(points)]), 1 % Q>>)

\* The loop of DenseOrSparsePolynomial::divide_with_q_and_r: while the
\* remainder is not of lower degree than the divisor, its leading term is
\* cancelled and its trailing zeros are dropped.
RECURSIVE DivideLoop(_, _, _, _)
DivideLoop(quotient, remainder, divisor, divisor_leading_inv) ==
    IF remainder = <<>> \/ Len(remainder) < Len(divisor) THEN quotient
    ELSE LET cur_q_coeff == Mul(remainder[Len(remainder)], divisor_leading_inv)
             cur_q_degree == Len(remainder) - Len(divisor)
             reduced == [i \in 1 .. Len(remainder) |->
                            Sub(remainder[i],
                                Mul(cur_q_coeff, Coeff(divisor, i - cur_q_degree)))]
         IN  DivideLoop([quotient EXCEPT ![cur_q_degree + 1] = cur_q_coeff],
                        from_coefficients_slice(reduced), divisor,
                        divisor_leading_inv)

\* &DensePolynomial / &DensePolynomial: the quotient; the remainder is dropped.
\* The divisor is never zero here (a vanishing polynomial is monic).
PolyDiv(f, divisor) ==
    IF f = <<>> THEN <<>>
    ELSE IF Len(f) < Len(divisor) THEN <<>>
    ELSE from_coefficients_slice(
             DivideLoop([i \in 1 .. (Len(f) - Len(divisor) + 1) |-> 0], f, divisor,
                        Inverse(divisor[Len(divisor)])))

\* CommitterKey::open_multi_points.
open_multi_points(key, polynomial, eval_points) ==
    LET z_poly == vanishing_polynomial(eval_points)
        f_poly == from_coefficients_slice(polynomial)
        q_poly == PolyDiv(f_poly, z_poly)
    IN  [quotient |-> q_poly, proof |-> commit(key, q_poly).commitment]

\* misc::linear_combination: the sum of challenges[i] * polynomials[i],
\* coefficient by coefficient, as long as the longest polynomial.
RECURSIVE linear_combination(_, _)
linear_combination(polynomials, challenges) ==
    IF polynomials = <<>> \/ challenges = <<>> THEN <<>>
    ELSE LET n == Min(Len(polynomials), Len(challenges))
             init == linear_combination(SubSeq(polynomials, 1, n - 1),
                                        SubSeq(challenges, 1, n - 1))
             last == polynomials[n]
         IN  [k \in 1 .. Max(Len(init), Len(last)) |->
                 Add(Coeff(init, k), Mul(challenges[n], Coeff(last, k)))]

\* The assertion of batch_open_multi_points.
BatchOpenPanics(key, eval_points) == ~(Len(eval_points) < Len(key.powers_of_g2))

\* The weights taken one power too high: eval_chal, eval_chal^2, ...
batch_open_multi_points_shifted(key, polynomials, eval_points, eval_chal) ==
    LET etas == Tail(powers(eval_chal, Len(polynomials) + 1))
        batched_polynomial == linear_combination(polynomials, etas)
    IN  open_multi_points(key, batched_polynomial, eval_points)

\* CommitterKey::batch_open_multi_points, past its assertion.
batch_open_multi_points(key, polynomials, eval_points, eval_chal) ==
    LET etas == powers(eval_chal, Len(polynomials))
        batched_polynomial == linear_combination(polynomials, etas)
    IN  open_multi_points(key, batched_polynomial, eval_points)

----------------------------------------------------------------------------
(* The verifier's state while no verification runs. *)

NoProof == [witness_commitment |-> 0, zc_alpha |-> 0,
            folded_polynomials_commitments |-> <<>>,
            base_polynomials_evaluations |-> <<0, 0, 0>>, x |-> <<>>]

VerifierIdle ==
    /\ pc = 0
    /\ transcript = <<>>
    /\ proof = NoProof
    /\ chal = [alpha |-> 0, eta |-> 0, eta2 |-> 0, gamma |-> 0, beta |-> 0]
    /\ sub = [first |-> "none", second |-> "none", tensorcheck |-> "none",
              final_foldings |-> <<0, 0>>, asserted_sum_2 |-> 0]
    /\ zs = [z_pos |-> 0, z_neg |-> 0]
    /\ result = "none"

----------------------------------------------------------------------------
(* The life of a committer key: setup, then any sequence of calls.  ret is   *)
(* the call in progress, with its arguments and what it returned.            *)

Idle == [op |-> "idle"]

Init ==
    /\ \E max_degree \in 0 .. MaxDegree, mep \in 0 .. MaxEvalPoints,
          tau \in Fr, g \in Fr, g2 \in Fr :
          /\ ck = CommitterKeyNew(max_degree, mep, tau, g, g2)
          /\ ret = [op |-> "new", max_degree |-> max_degree,
                    max_eval_points |-> mep]
    /\ origin = "new"
    /\ VerifierIdle

Return ==
    /\ ret.op # "idle"
    /\ ret' = Idle
    /\ UNCHANGED <<ck, origin, verifierVars>>

Commit ==
    /\ ret.op = "idle"
    /\ \E polynomial \in SeqsUpTo(InputScalars, MaxLen) :
          ret' = [op |-> "commit", polynomial |-> polynomial,
                  result |-> commit(ck, polynomial)]
    /\ UNCHANGED <<ck, origin, verifierVars>>

IndexBy ==
    /\ ret.op = "idle"
    /\ \E indices \in SeqsUpTo(0 .. (MaxDegree + 1), MaxDegree + 2) :
          ret' = IF IndexByPanics(ck, indices)
                 THEN [op |-> "index_by", indices |-> indices, panic |-> TRUE]
                 ELSE [op |-> "index_by", indices |-> indices, panic |-> FALSE,
                       key |-> index_by(ck, indices)]
    /\ UNCHANGED <<ck, origin, verifierVars>>

\* The caller goes on with the key index_by returned.
UseIndexedKey ==
    /\ ret.op = "index_by"
    /\ ~ret.panic
    /\ ck' = ret.key
    /\ origin' = "index_by"
    /\ ret' = Idle
    /\ UNCHANGED verifierVars

DeriveVerifierKey ==
    /\ ret.op = "idle"
    /\ ret' = IF VerifierKeyPanics(ck)
              THEN [op |-> "verifier_key", panic |-> TRUE]
              ELSE [op |-> "verifier_key", panic |-> FALSE,
                    vk |-> VerifierKeyFrom(ck)]
    /\ UNCHANGED <<ck, origin, verifierVars>>

Next ==
    \/ Return
    \/ Commit
    \/ IndexBy
    \/ UseIndexedKey
    \/ DeriveVerifierKey

Spec == Init /\ [][Next]_vars

----------------------------------------------------------------------------
(* Claims about the committer key, checked under Spec. *)

\* C2: commit on a coefficient vector longer than the group-1 basis fails
\* with a degree-bound error.
C2_CommitRejectsOverlong ==
    (ret.op = "commit" /\ Len(ret.polynomial) > Len(ck.powers_of_g))
        => ret.result.error = "degree_bound"

\* C4: the key returned by CommitterKey::new(max_degree, max_eval_points) has
\* max_degree + 1 group-1 elements and max_eval_points + 1 group-2 elements,
\* and max_eval_points() gives back the max_eval_points that was passed.
C4_SetupBasisLengths ==
    ret.op = "new" =>
        /\ Len(ck.powers_of_g) = ret.max_degree + 1
        /\ Len(ck.powers_of_g2) = ret.max_eval_points + 1
        /\ max_eval_points(ck) = ret.max_eval_points

\* The group sum of the elements gs[j] over the positions j in S.
RECURSIVE GroupSum(_, _)
GroupSum(gs, S) ==
    IF S = {} THEN 0
    ELSE LET j == CHOOSE k \in S : TRUE
         IN  (gs[j] + GroupSum(gs, S \ {j})) % Q

\* indices has an entry for every basis position and each of those entries
\* is a position of the basis.
IndicesCover(key, indices) ==
    /\ Len(indices) >= Len(key.powers_of_g)
    /\ \A j \in 1 .. Len(key.powers_of_g) : indices[j] < Len(key.powers_of_g)

IsPermutation(key, indices) ==
    /\ Len(indices) = Len(key.powers_of_g)
    /\ \A t \in 0 .. (Len(indices) - 1) : \E j \in 1 .. Len(indices) : indices[j] = t

\* C7: index_by with indices covering the basis returns a key whose group-1
\* entry t is the group sum of the original entries j with indices[j] = t (the
\* identity when there is none), of the same length, over the same group-2
\* basis; under a permutation entry indices[j] is exactly the original entry j.
C7_IndexByScatters ==
    (ret.op = "index_by" /\ IndicesCover(ck, ret.indices)) =>
        /\ ~ret.panic
        /\ Len(ret.key.powers_of_g) = Len(ck.powers_of_g)
        /\ ret.key.powers_of_g2 = ck.powers_of_g2
        /\ \A t \in 0 .. (Len(ck.powers_of_g) - 1) :
              ret.key.powers_of_g[t + 1] =
                  GroupSum(ck.powers_of_g,
                           {j \in 1 .. Len(ck.powers_of_g) : ret.indices[j] = t})
        /\ IsPermutation(ck, ret.indices) =>
              \A j \in 1 .. Len(ck.powers_of_g) :
                  ret.key.powers_of_g[ret.indices[j] + 1] = ck.powers_of_g[j]

\* Two non-identity elements were summed into slot 0 and slot 1 was left the
\* identity.
C7_Witness ==
    /\ ret.op = "index_by"
    /\ ret.indices = <<0, 0>>
    /\ Len(ck.powers_of_g) = 2
    /\ ck.powers_of_g[1] # 0
    /\ ck.powers_of_g[2] # 0
    /\ ~ret.panic
    /\ ret.key.powers_of_g = <<Add(ck.powers_of_g[1], ck.powers_of_g[2]), 0>>

\* C9: the verifier key derived from a key made by setup or by index_by holds
\* the key's whole group-2 basis and the first max_eval_points elements of its
\* group-1 basis, and deriving it reads past the end of neither.
C9_VerifierKeyProjection ==
    ret.op = "verifier_key" =>
        /\ ~ret.panic
        /\ Len(ret.vk.powers_of_g2) = Len(ck.powers_of_g2)
        /\ \A i \in 1 .. Len(ck.powers_of_g2) :
              ret.vk.powers_of_g2[i] = ck.powers_of_g2[i]
        /\ Len(ret.vk.powers_of_g) = Len(ck.powers_of_g2) - 1
        /\ Len(ret.vk.powers_of_g) <= Len(ck.powers_of_g)
        /\ \A i \in 1 .. Len(ret.vk.powers_of_g) :
              ret.vk.powers_of_g[i] = ck.powers_of_g[i]

\* A verifier key with a proper, non-empty prefix of the group-1 basis of a
\* key that index_by returned.
C9_Witness ==
    /\ ret.op = "verifier_key"
    /\ origin = "index_by"
    /\ ~ret.panic
    /\ Len(ret.vk.powers_of_g) = 1
    /\ Len(ck.powers_of_g) = 2
    /\ ck.powers_of_g[1] # 0

----------------------------------------------------------------------------
(* Openings under a key from setup: the inputs of the pure functions are    *)
(* drawn from bounded sets and each call is applied to them.                 *)

\* The polynomials handed to batch_open_multi_points: of lengths 0 to 3, one
\* of them with a trailing zero coefficient.
BatchPolynomials == {<<>>, <<1>>, <<0, 1>>, <<1, 0>>, <<Q - 1, 1, 1>>}

InitOpen ==
    /\ \E max_degree \in 0 .. MaxDegree, mep \in 0 .. MaxEvalPoints :
          ck = CommitterKeyNew(max_degree, mep, 2 % Q, 1, 1)
    /\ origin = "new"
    /\ ret = Idle
    /\ VerifierIdle

Open ==
    /\ ret.op = "idle"
    /\ \E polynomial \in SeqsUpTo(InputScalars, MaxLen), z \in InputScalars :
          ret' = [op |-> "open", polynomial |-> polynomial, z |-> z,
                  result |-> open(ck, polynomial, z)]
    /\ UNCHANGED <<ck, origin, verifierVars>>

OpenMultiPoints ==
    /\ ret.op = "idle"
    /\ \E polynomial \in SeqsUpTo(InputScalars, MaxLen),
          eval_points \in SeqsUpTo(InputScalars, MaxPoints) :
          ret' = [op |-> "open_multi_points", polynomial |-> polynomial,
                  eval_points |-> eval_points,
                  result |-> open_multi_points(ck, polynomial, eval_points)]
    /\ UNCHANGED <<ck, origin, verifierVars>>

BatchOpenMultiPoints ==
    /\ ret.op = "idle"
    /\ \E polynomials \in SeqsUpTo(BatchPolynomials, MaxPolys),
          eval_points \in SeqsUpTo(InputScalars, MaxPoints),
          eval_chal \in InputScalars :
          ret' = IF BatchOpenPanics(ck, eval_points)
                 THEN [op |-> "batch_open_multi_points",
                       polynomials |-> polynomials, eval_points |-> eval_points,
                       eval_chal |-> eval_chal, panic |-> TRUE]
                 ELSE [op |-> "batch_open_multi_points",
                       polynomials |-> polynomials, eval_points |-> eval_points,
                       eval_chal |-> eval_chal, panic |-> FALSE,
                       result |-> batch_open_multi_points(ck, polynomials,
                                                          eval_points, eval_chal)]
    /\ UNCHANGED <<ck, origin, verifierVars>>

NextOpen ==
    \/ Return
    \/ Open
    \/ OpenMultiPoints
    \/ BatchOpenMultiPoints

SpecOpen == InitOpen /\ [][NextOpen]_vars

----------------------------------------------------------------------------
(* Claims about the openings, checked under SpecOpen. *)

\* p(z) as the sum of p[i] * z^(i-1).
RECURSIVE EvalSum(_, _, _)
EvalSum(p, z, n) ==
    IF n = 0 THEN 0 ELSE (EvalSum(p, z, n - 1) + p[n] * Pow(z, n - 1)) % Q

\* C5: open(p, z) returns p(z) as the evaluation and a quotient q of length
\* len(p) - 1 (empty for the empty p, the evaluation then being 0) such that
\* p(X) = q(X) * (X - z) + p(z); the proof is the commitment to q.
C5_OpenDividesByLinear ==
    ret.op = "open" =>
        LET p == ret.polynomial
            z == ret.z
            q == ret.result.quotient
            e == ret.result.evaluation
        IN  /\ e = EvalSum(p, z, Len(p))
            /\ Len(q) = IF p = <<>> THEN 0 ELSE Len(p) - 1
            /\ \A k \in 1 .. Len(p) :
                  p[k] = (Coeff(q, k - 1) + (Q - z) * Coeff(q, k)
                          + (IF k = 1 THEN e ELSE 0)) % Q
            /\ Len(q) <= Len(ck.powers_of_g) =>
                  ret.result.proof =
                      GroupSum([i \in 1 .. Len(q) |-> (ck.powers_of_g[i] * q[i]) % Q],
                               1 .. Len(q))

\* A polynomial of degree 2 opened away from 0, with a non-zero evaluation and
\* a non-zero quotient.
C5_Witness ==
    /\ ret.op = "open"
    /\ Len(ret.polynomial) = 3
    /\ ret.polynomial[3] # 0
    /\ ret.z # 0
    /\ ret.result.evaluation # 0
    /\ ret.result.quotient[1] # 0
    /\ ret.result.proof # 0

\* The sum of eval_chal^(i-1) * polynomials[i], coefficient by coefficient.
WeightedSum(polynomials, eval_chal) ==
    LET width == IF polynomials = <<>> THEN 0
                 ELSE CHOOSE w \in {Len(polynomials[i]) : i \in 1 .. Len(polynomials)} :
                         \A i \in 1 .. Len(polynomials) : Len(polynomials[i]) <= w
    IN  [k \in 1 .. width |->
            GroupSum([i \in 1 .. Len(polynomials) |->
                         (Pow(eval_chal, i - 1) * Coeff(polynomials[i], k)) % Q],
                     1 .. Len(polynomials))]

\* C6: with fewer than max_eval_points + 1 points, batch_open_multi_points
\* returns the proof open_multi_points returns on the weighted sum of the
\* polynomials, the first of them with weight 1.
C6_BatchOpenIsOpenOfSum ==
    (ret.op = "batch_open_multi_points"
        /\ Len(ret.eval_points) < max_eval_points(ck) + 1) =>
        /\ ~ret.panic
        /\ ret.result.proof =
              open_multi_points(ck, WeightedSum(ret.polynomials, ret.eval_chal),
                                ret.eval_points).proof

\* Two polynomials of different lengths batched under a challenge other than
\* 0 and 1, opened at one point, with a proof that is not the identity.
C6_Witness ==
    /\ ret.op = "batch_open_multi_points"
    /\ ~ret.panic
    /\ Len(ret.polynomials) = 2
    /\ Len(ret.polynomials[1]) # Len(ret.polynomials[2])
    /\ ret.polynomials[2] # <<>>
    /\ ret.eval_chal \notin {0, 1}
    /\ Len(ret.eval_points) = 1
    /\ ret.result.proof # 0

----------------------------------------------------------------------------
(* The verifier: Proof::verify, one action per transcript operation or call. *)

\* Most fold commitments in a tensor-check sub-proof, longest public input.
MaxFolds == 2

MaxPublic == 2

\* The steps of Proof::verify with the fold commitments absorbed before gamma is drawn.
VerifyStepsFoldFirst ==
    <<"append_witness", "alpha", "append_zc_alpha", "sumcheck_1", "eta",
      "sumcheck_2", "fold_commitments", "gamma", "beta", "evaluations",
      "tensorcheck">>

\* The steps of Proof::verify in program order.
VerifySteps ==
    <<"append_witness", "alpha", "append_zc_alpha", "sumcheck_1", "eta",
      "sumcheck_2", "gamma", "fold_commitments", "beta", "evaluations",
      "tensorcheck">>

Done == Len(VerifySteps) + 1

At(step) == pc >= 1 /\ pc <= Len(VerifySteps) /\ VerifySteps[pc] = step

\* A transcript is the sequence of what was done to it.
Entry(op, label, value) == [op |-> op, label |-> label, value |-> value]

LabelCode(label) ==
    CASE label = "alpha" -> 1
      [] label = "eta" -> 2
      [] label = "batch_challenge" -> 3
      [] label = "evaluation-chal" -> 4

\* GeminiTranscript::get_challenge: a fixed function of the label and of
\* everything done to the transcript before, here a position-weighted sum.
RECURSIVE Digest(_, _)
Digest(t, n) ==
    IF n = 0 THEN 0 ELSE (Digest(t, n - 1) + n * (t[n].value + 1)) % Q

get_challenge(t, label) == (Digest(t, Len(t)) + LabelCode(label)) % Q

\* The ? on the result of Subclaim::new: an error returns from verify at once.
AlwaysGoOn(outcome) == pc + 1

QuestionMark(outcome) == IF outcome = "ok" THEN pc + 1 ELSE Done

\* An error of a callee handed to the caller as it is.
KeepError(e) == e

\* What verify returns for an error of a callee: the ? converts into the
\* function's error type and map_err(|_| VerificationError) discards the
\* callee's error; VerificationError is a unit value.
VerificationError(e) == "VerificationError"

\* misc::evaluate_le: the polynomial with little-endian coefficients,
\* evaluated by Horner's rule from the highest coefficient down.
RECURSIVE evaluate_le(_, _)
evaluate_le(coeffs, point) ==
    IF coeffs = <<>> THEN 0
    ELSE Add(Head(coeffs), Mul(point, evaluate_le(Tail(coeffs), point)))

z_pos(x, beta, evaluations) ==
    LET beta_power == Pow(beta, Len(x))
    IN  Add(evaluate_le(x, beta), Mul(beta_power, evaluations[2]))

\* The witness term added whatever the parity of the public input's length.
z_neg_added(x, beta, evaluations) ==
    LET beta_power == Pow(beta, Len(x))
    IN  Add(evaluate_le(x, Neg(beta)), Mul(beta_power, evaluations[3]))

z_neg(x, beta, evaluations) ==
    LET beta_power == Pow(beta, Len(x))
    IN  IF Len(x) % 2 = 0
        THEN Add(evaluate_le(x, Neg(beta)), Mul(beta_power, evaluations[3]))
        ELSE Sub(evaluate_le(x, Neg(beta)), Mul(beta_power, evaluations[3]))

\* The final foldings Subclaim::new may hand back.
FinalFoldings == {<<1, 1>>, <<0, Q - 1>>, <<Q - 1, 1>>}

KzgIdle ==
    /\ ck = [powers_of_g |-> <<>>, powers_of_g2 |-> <<>>]
    /\ origin = "none"
    /\ ret = Idle

InitVerify ==
    /\ KzgIdle
    /\ pc = 1
    /\ transcript = <<>>
    /\ proof \in [witness_commitment : {1, Q - 1},
                  zc_alpha : {0, 1},
                  folded_polynomials_commitments : SeqsUpTo({1, Q - 1}, MaxFolds),
                  base_polynomials_evaluations : {<<0, a, b>> : a, b \in InputScalars},
                  x : SeqsUpTo(InputScalars, MaxPublic)]
    /\ chal = [alpha |-> 0, eta |-> 0, eta2 |-> 0, gamma |-> 0, beta |-> 0]
    /\ sub = [first |-> "none", second |-> "none", tensorcheck |-> "none",
              final_foldings |-> <<0, 0>>, asserted_sum_2 |-> 0]
    /\ zs = [z_pos |-> 0, z_neg |-> 0]
    /\ result = "none"

AppendWitness ==
    /\ At("append_witness")
    /\ transcript' = Append(transcript,
                            Entry("append_commitment", "witness", proof.witness_commitment))
    /\ pc' = pc + 1
    /\ UNCHANGED <<kzgVars, proof, chal, sub, zs, result>>

DeriveAlpha ==
    /\ At("alpha")
    /\ LET alpha == get_challenge(transcript, "alpha")
       IN  /\ chal' = [chal EXCEPT !.alpha = alpha]
           /\ transcript' = Append(transcript, Entry("get_challenge", "alpha", alpha))
    /\ pc' = pc + 1
    /\ UNCHANGED <<kzgVars, proof, sub, zs, result>>

AppendZcAlpha ==
    /\ At("append_zc_alpha")
    /\ transcript' = Append(transcript,
                            Entry("append_scalar", "zc(alpha)", proof.zc_alpha))
    /\ pc' = pc + 1
    /\ UNCHANGED <<kzgVars, proof, chal, sub, zs, result>>

\* Subclaim::new on the first sumcheck messages, claimed sum zc_alpha: it
\* works on the transcript and fails or hands back the final foldings.
Sumcheck1 ==
    /\ At("sumcheck_1")
    /\ transcript' = Append(transcript, Entry("subclaim", "first", proof.zc_alpha))
    /\ \/ /\ \E ff \in FinalFoldings :
                sub' = [sub EXCEPT !.first = "ok", !.final_foldings = ff]
          /\ pc' = QuestionMark("ok")
          /\ result' = result
       \/ /\ sub' = [sub EXCEPT !.first = "err"]
          /\ pc' = QuestionMark("err")
          /\ result' = VerificationError("sumcheck_1")
    /\ UNCHANGED <<kzgVars, proof, chal, zs>>

DeriveEta ==
    /\ At("eta")
    /\ LET eta == get_challenge(transcript, "eta")
       IN  /\ chal' = [chal EXCEPT !.eta = eta, !.eta2 = Mul(eta, eta)]
           /\ transcript' = Append(transcript, Entry("get_challenge", "eta", eta))
    /\ pc' = pc + 1
    /\ UNCHANGED <<kzgVars, proof, sub, zs, result>>

\* asserted_sum_2, then Subclaim::new on the second sumcheck messages.
Sumcheck2 ==
    /\ At("sumcheck_2")
    /\ LET asserted_sum_2 ==
               Add(Add(sub.final_foldings[1], Mul(sub.final_foldings[2], chal.eta)),
                   Mul(proof.zc_alpha, chal.eta2))
       IN  /\ transcript' = Append(transcript,
                                   Entry("subclaim", "second", asserted_sum_2))
           /\ \/ /\ sub' = [sub EXCEPT !.second = "ok",
                                       !.asserted_sum_2 = asserted_sum_2]
                 /\ pc' = QuestionMark("ok")
                 /\ result' = result
              \/ /\ sub' = [sub EXCEPT !.second = "err",
                                       !.asserted_sum_2 = asserted_sum_2]
                 /\ pc' = QuestionMark("err")
                 /\ result' = VerificationError("sumcheck_2")
    /\ UNCHANGED <<kzgVars, proof, chal, zs>>

DeriveGamma ==
    /\ At("gamma")
    /\ LET gamma == get_challenge(transcript, "batch_challenge")
       IN  /\ chal' = [chal EXCEPT !.gamma = gamma]
           /\ transcript' = Append(transcript,
                                   Entry("get_challenge", "batch_challenge", gamma))
    /\ pc' = pc + 1
    /\ UNCHANGED <<kzgVars, proof, sub, zs, result>>

\* for_each over folded_polynomials_commitments.
AppendFoldCommitments ==
    /\ At("fold_commitments")
    /\ transcript' = transcript \o
           [i \in 1 .. Len(proof.folded_polynomials_commitments) |->
               Entry("append_commitment", "commitment",
                     proof.folded_polynomials_commitments[i])]
    /\ pc' = pc + 1
    /\ UNCHANGED <<kzgVars, proof, chal, sub, zs, result>>

DeriveBeta ==
    /\ At("beta")
    /\ LET beta == get_challenge(transcript, "evaluation-chal")
       IN  /\ chal' = [chal EXCEPT !.beta = beta]
           /\ transcript' = Append(transcript,
                                   Entry("get_challenge", "evaluation-chal", beta))
    /\ pc' = pc + 1
    /\ UNCHANGED <<kzgVars, proof, sub, zs, result>>

\* z_pos and z_neg.  m_pos and m_neg, which only feed the tensor check, are
\* left out with the constraint matrices.
ComputeEvaluations ==
    /\ At("evaluations")
    /\ zs' = [z_pos |-> z_pos(proof.x, chal.beta, proof.base_polynomials_evaluations),
              z_neg |-> z_neg(proof.x, chal.beta, proof.base_polynomials_evaluations)]
    /\ pc' = pc + 1
    /\ UNCHANGED <<kzgVars, transcript, proof, chal, sub, result>>

\* tensorcheck_proof.verify: it works on the transcript and passes or fails;
\* its result, with the error mapped, is what verify returns.
Tensorcheck ==
    /\ At("tensorcheck")
    /\ transcript' = Append(transcript, Entry("tensorcheck", "verify", chal.gamma))
    /\ \/ /\ sub' = [sub EXCEPT !.tensorcheck = "ok"]
          /\ result' = "Ok"
       \/ /\ sub' = [sub EXCEPT !.tensorcheck = "err"]
          /\ result' = VerificationError("tensorcheck")
    /\ pc' = Done
    /\ UNCHANGED <<kzgVars, proof, chal, zs>>

NextVerify ==
    \/ AppendWitness
    \/ DeriveAlpha
    \/ AppendZcAlpha
    \/ Sumcheck1
    \/ DeriveEta
    \/ Sumcheck2
    \/ DeriveGamma
    \/ AppendFoldCommitments
    \/ DeriveBeta
    \/ ComputeEvaluations
    \/ Tensorcheck

SpecVerify == InitVerify /\ [][NextVerify]_vars

----------------------------------------------------------------------------
(* Claims about the verifier, checked under SpecVerify. *)

IsGamma(e) == e.op = "get_challenge" /\ e.label = "batch_challenge"

IsBeta(e) == e.op = "get_challenge" /\ e.label = "evaluation-chal"

IsFold(e) == e.op = "append_commitment" /\ e.label = "commitment"

Positions(P(_)) == {i \in 1 .. Len(transcript) : P(transcript[i])}

NumFolds == Len(proof.folded_polynomials_commitments)

\* C1 as claimed: when gamma is derived every fold commitment of the
\* sub-proof is already in the transcript, and gamma comes before beta.
C1_FoldsAbsorbedBeforeGamma ==
    \A i \in Positions(IsGamma) :
        /\ Cardinality({j \in Positions(IsFold) : j < i}) = NumFolds
        /\ \A k \in Positions(IsBeta) : i < k

\* C1 as the code has it: gamma is derived before any fold commitment is
\* appended, so no fold commitment is among what gamma is derived from; every
\* fold commitment, in the sub-proof's order, is appended after gamma and
\* before beta is derived, and beta is derived from all of them.
C1_GammaBeforeFoldsBeforeBeta ==
    /\ \A i \in Positions(IsGamma) :
          /\ \A j \in Positions(IsFold) : i < j
          /\ transcript[i].value = chal.gamma
          /\ chal.gamma = get_challenge(SubSeq(transcript, 1, i - 1), "batch_challenge")
    /\ \A j \in Positions(IsFold) : Positions(IsGamma) # {}
    /\ \A k \in Positions(IsBeta) :
          /\ Positions(IsGamma) # {}
          /\ \A i \in Positions(IsGamma) : i < k
          /\ \A j \in Positions(IsFold) : j < k
          /\ [n \in 1 .. NumFolds |-> transcript[k - NumFolds - 1 + n].value]
                 = proof.folded_polynomials_commitments
          /\ \A n \in 1 .. NumFolds : IsFold(transcript[k - NumFolds - 1 + n])
          /\ chal.beta = get_challenge(SubSeq(transcript, 1, k - 1), "evaluation-chal")

\* A finished run over a sub-proof with two different fold commitments.
C1_Witness ==
    /\ pc = Done
    /\ result = "Ok"
    /\ NumFolds = 2
    /\ proof.folded_polynomials_commitments[1] # proof.folded_polynomials_commitments[2]
    /\ Cardinality(Positions(IsFold)) = 2
    /\ Positions(IsBeta) # {}

\* C3: verify returns success exactly when both sumchecks and the tensor
\* check succeed, and every failure is the one value VerificationError.
C3_SingleInvalidProofResult ==
    /\ pc = Done =>
          /\ result = "Ok" <=>
                (sub.first = "ok" /\ sub.second = "ok" /\ sub.tensorcheck = "ok")
          /\ result # "Ok" => result = "VerificationError"
          /\ result # "Ok" =>
                (sub.first = "err" \/ sub.second = "err" \/ sub.tensorcheck = "err")
    /\ pc # Done => result = "none"

\* A run that failed only at the tensor check.
C3_Witness ==
    /\ pc = Done
    /\ sub.first = "ok"
    /\ sub.second = "ok"
    /\ sub.tensorcheck = "err"
    /\ result = "VerificationError"

\* C8: z_plus = x(beta) + beta^p * w_plus and z_minus = x(-beta) + (-beta)^p *
\* w_minus, i.e. the witness term of z_minus is added for an even public-input
\* length p and subtracted for an odd one; stated of every run in which the
\* two values have been computed.
C8_PublicInputSignRule ==
    (Positions(IsBeta) # {} /\ ~At("evaluations")) =>
        LET x == proof.x
            p == Len(x)
            beta == chal.beta
            minus_beta == (Q - beta) % Q
            w_plus == proof.base_polynomials_evaluations[2]
            w_minus == proof.base_polynomials_evaluations[3]
        IN  /\ zs.z_pos = (EvalSum(x, beta, p) + Pow(beta, p) * w_plus) % Q
            /\ zs.z_neg = (EvalSum(x, minus_beta, p) + Pow(minus_beta, p) * w_minus) % Q
            /\ p % 2 = 0 =>
                  zs.z_neg = (EvalSum(x, minus_beta, p) + Pow(beta, p) * w_minus) % Q
            /\ p % 2 = 1 =>
                  zs.z_neg = (EvalSum(x, minus_beta, p)
                              + (Q - ((Pow(beta, p) * w_minus) % Q))) % Q

\* An odd public-input length with a non-zero witness term, where adding and
\* subtracting differ.
C8_Witness ==
    /\ pc = Done
    /\ Len(proof.x) = 1
    /\ proof.x[1] # 0
    /\ chal.beta # 0
    /\ proof.base_polynomials_evaluations[3] # 0
    /\ zs.z_neg = Sub(proof.x[1], Mul(chal.beta, proof.base_polynomials_evaluations[3]))
    /\ zs.z_neg # Add(proof.x[1], Mul(chal.beta, proof.base_polynomials_evaluations[3]))

\* The place of a transcript entry in the order append witness, alpha, append
\* claimed value, sumcheck #1, eta, sumcheck #2, consistency phase, tensor
\* check.
Stage(e) ==
    CASE e.op = "append_commitment" /\ e.label = "witness" -> 1
      [] e.op = "get_challenge" /\ e.label = "alpha" -> 2
      [] e.op = "append_scalar" -> 3
      [] e.op = "subclaim" /\ e.label = "first" -> 4
      [] e.op = "get_challenge" /\ e.label = "eta" -> 5
      [] e.op = "subclaim" /\ e.label = "second" -> 6
      [] IsGamma(e) \/ IsFold(e) \/ IsBeta(e) -> 7
      [] e.op = "tensorcheck" -> 8

Reached(n) == \E i \in 1 .. Len(transcript) : Stage(transcript[i]) = n

\* C10: after a failed sumcheck #1 there is no eta, no sumcheck #2 and no
\* tensor check; after a failed sumcheck #2 there is no fold commitment, no
\* gamma, no beta and no tensor check; a failure ends the run; and the steps
\* that occur, each at most once outside the consistency phase, occur in order
\* with none skipped.
C10_EarlyTerminationInOrder ==
    /\ sub.first = "err" =>
          /\ pc = Done
          /\ \A n \in 5 .. 8 : ~Reached(n)
          /\ sub.second = "none" /\ sub.tensorcheck = "none"
    /\ sub.second = "err" =>
          /\ pc = Done
          /\ \A n \in 7 .. 8 : ~Reached(n)
          /\ sub.tensorcheck = "none"
    /\ \A i, j \in 1 .. Len(transcript) :
          i < j =>
             /\ Stage(transcript[i]) <= Stage(transcript[j])
             /\ Stage(transcript[i]) = Stage(transcript[j]) => Stage(transcript[i]) = 7
    /\ \A n \in 2 .. 8 : Reached(n) => Reached(n - 1)
    /\ Reached(5) => sub.first = "ok"
    /\ Reached(7) => sub.second = "ok"

\* A run ended by the failure of sumcheck #2: eta was derived, nothing later.
C10_Witness ==
    /\ pc = Done
    /\ sub.first = "ok"
    /\ sub.second = "err"
    /\ Reached(5)
    /\ Reached(6)
    /\ ~Reached(7)
    /\ result = "VerificationError"

====
